---- MODULE Spec2Model ----
(***************************************************************************)
(* Flood-aware route advisor: the report grid (FloodLearner), the          *)
(* coordinate sampler, the risk scorer and the routing flow                *)
(* (handleRouting) of src/src/js/app.js, together with the earlier build   *)
(* of the same page, src/unnamed/part_001 (scoreRoute, running-minimum     *)
(* selection).                                                             *)
(*                                                                         *)
(* Numbers.  Latitudes and longitudes are integers in units of 1e-4        *)
(* degree.  Scores are exact rationals [n, d] in lowest terms; JavaScript  *)
(* doubles are not modelled, so rounding error of the floating point       *)
(* arithmetic is outside this model.                                       *)
(***************************************************************************)
EXTENDS Integers, Sequences, FiniteSets, TLC

(***************************************************************************)
(* Bounds of the model (not program constants).                            *)
(***************************************************************************)
\* reports that may be stored in the grid at one time (clicks stop there)
MaxReports == 2
\* longest geometry handed to the sampler in SpecSampler
MaxLen == 4
\* largest maxSamples handed to the sampler in SpecSampler
MaxN == 3

(***************************************************************************)
(* Program constants.                                                      *)
(***************************************************************************)
\* FloodLearner._key(lat, lng, p = 3)
KeyPrecision == 3
\* computeLearnedScore: sampleCoordsFromGeojson(geojson, 30)
LearnedSamples == 30
\* computeNoahScore: sampleCoordsFromGeojson(geojson, 20)
NoahSamples == 20
\* part_001 scoreRoute: Math.floor(pts.length / 30)
LegacySamples == 30
\* Math.min(10, rainMM)
RainClamp == 10
\* alertScore = 5
AlertScore == 5
\* Number(threshold field) || 2
DefaultThreshold == 2

(***************************************************************************)
(* Exact rational arithmetic standing for the JavaScript Number            *)
(* arithmetic of the scorer.                                               *)
(***************************************************************************)
Abs(x) == IF x < 0 THEN -x ELSE x

Max(a, b) == IF a >= b THEN a ELSE b

Min(a, b) == IF a <= b THEN a ELSE b

RECURSIVE GCD(_, _)
GCD(a, b) == IF b = 0 THEN a ELSE GCD(b, a % b)

Rat(n, d) ==
  LET g == GCD(Abs(n), d)
  IN  [n |-> (IF n < 0 THEN -(Abs(n) \div g) ELSE n \div g), d |-> d \div g]

RatInt(i) == Rat(i, 1)

\* the operands x and y are evaluated once
RatAdd(a, b) ==
  CHOOSE q \in {Rat(x.n * y.d + y.n * x.d, x.d * y.d) : x \in {a}, y \in {b}} : TRUE

RatMul(a, b) ==
  CHOOSE q \in {Rat(x.n * y.n, x.d * y.d) : x \in {a}, y \in {b}} : TRUE

RatLess(a, b) == a.n * b.d < b.n * a.d

RatLeq(a, b) == a.n * b.d <= b.n * a.d

\* Number.prototype.toFixed(2) of a non-negative score, in hundredths
ToFixed2(q) == (200 * q.n + q.d) \div (2 * q.d)

(***************************************************************************)
(* Coordinates.  A GeoJSON position is the pair <<lng, lat>>; the program  *)
(* turns it into the object {lat, lng}.                                    *)
(***************************************************************************)
Pos(p) == <<p.lng, p.lat>>

PA == [lat |-> 2, lng |-> 3]

\* rounds to the same cell as PA
PB == [lat |-> 4, lng |-> 1]

\* the latitude rounds up and the longitude is negative: another cell
PC == [lat |-> 6, lng |-> -3]

Points == {PA, PB, PC}

(***************************************************************************)
(* FloodLearner: the report grid kept in localStorage under "flood_grid".  *)
(* The stored item is [has |-> FALSE] when the key is absent; otherwise    *)
(* json is the parsed object, a function from the keys present to counts.  *)
(***************************************************************************)
\* Number.prototype.toFixed(p) for p = KeyPrecision = 3 of x (1e-4 degree):
\* the sign is kept even when the digits round to zero ("-0.000")
ToFixed(x, p) ==
  IF p = 3 THEN [neg |-> x < 0, mil |-> (Abs(x) + 5) \div 10]
           ELSE [neg |-> x < 0, mil |-> Abs(x)]

\* `${Number(lat).toFixed(p)}|${Number(lng).toFixed(p)}`
FL_key(lat, lng) == <<ToFixed(lat, KeyPrecision), ToFixed(lng, KeyPrecision)>>

NoItem == [has |-> FALSE, json |-> <<>>]

\* JSON.parse(localStorage.getItem("flood_grid") || "{}")
FL_all(item) == IF item.has THEN item.json ELSE <<>>

\* g[k] || 0
Lookup(g, k) == IF k \in DOMAIN g THEN g[k] ELSE 0

\* variant of score that builds its key with 4 decimals
FL_scoreMutOtherKey(item, lat, lng) ==
  Lookup(FL_all(item), <<ToFixed(lat, KeyPrecision + 1), ToFixed(lng, KeyPrecision + 1)>>)

\* score(lat, lng)
FL_score(item, lat, lng) == Lookup(FL_all(item), FL_key(lat, lng))

\* variant of increment that writes back the incremented cell only
FL_incrementMutReset(item, lat, lng) ==
  LET k == FL_key(lat, lng)
  IN  [has |-> TRUE, json |-> [kk \in {k} |-> Lookup(FL_all(item), k) + 1]]

\* variant of increment that adds 2
FL_incrementMutTwice(item, lat, lng) ==
  LET k == FL_key(lat, lng)
      g == FL_all(item)
  IN  [has |-> TRUE,
       json |-> [kk \in DOMAIN g \cup {k} |->
                   IF kk = k THEN Lookup(g, k) + 2 ELSE g[kk]]]

\* increment(lat, lng): the item written back by localStorage.setItem
FL_increment(item, lat, lng) ==
  LET k == FL_key(lat, lng)
      g == FL_all(item)
  IN  [has |-> TRUE,
       json |-> [kk \in DOMAIN g \cup {k} |->
                   IF kk = k THEN Lookup(g, k) + 1 ELSE g[kk]]]

\* variant of clear that removes nothing
FL_clearMutKeep(item) == item

\* clear(): localStorage.removeItem("flood_grid")
FL_clear(item) == NoItem

RECURSIVE SumOver(_, _)
SumOver(f, S) ==
  IF S = {} THEN 0
  ELSE LET x == CHOOSE y \in S : TRUE IN f[x] + SumOver(f, S \ {x})

\* reports held by the grid
TotalReports(item) == LET g == FL_all(item) IN SumOver(g, DOMAIN g)

(***************************************************************************)
(* Geometries.  A geometry object may be missing (has = FALSE) or lack     *)
(* its coordinates member (hasCoords = FALSE).                             *)
(***************************************************************************)
NullGeo == [has |-> FALSE, hasCoords |-> FALSE, coordinates |-> <<>>]

NoCoordsGeo == [has |-> TRUE, hasCoords |-> FALSE, coordinates |-> <<>>]

LineString(cs) == [has |-> TRUE, hasCoords |-> TRUE, coordinates |-> cs]

(***************************************************************************)
(* Coordinate sampler.                                                     *)
(***************************************************************************)
\* for (let i = i0; i < coords.length; i += step) out.push({lat, lng})
RECURSIVE SampleLoop(_, _, _)
SampleLoop(coords, i, step) ==
  IF i >= Len(coords) THEN <<>>
  ELSE <<[lat |-> coords[i + 1][2], lng |-> coords[i + 1][1]]>>
         \o SampleLoop(coords, i + step, step)

\* variant of the sampler whose loop starts at the first stride
sampleMutSkipFirst(geojson, maxSamples) ==
  IF ~geojson.has \/ ~geojson.hasCoords THEN <<>>
  ELSE LET coords == geojson.coordinates
           step == Max(1, Len(coords) \div maxSamples)
       IN  SampleLoop(coords, step, step)

\* sampleCoordsFromGeojson(geojson, maxSamples)
sampleCoordsFromGeojson(geojson, maxSamples) ==
  IF ~geojson.has \/ ~geojson.hasCoords THEN <<>>
  ELSE LET coords == geojson.coordinates
           step == Max(1, Len(coords) \div maxSamples)
       IN  SampleLoop(coords, 0, step)

(***************************************************************************)
(* Risk scorer of app.js.                                                  *)
(***************************************************************************)
\* samples.forEach(p => { sum += FloodLearner.score(p.lat, p.lng); })
RECURSIVE SumScores(_, _)
SumScores(item, samples) ==
  IF samples = <<>> THEN 0
  ELSE FL_score(item, Head(samples).lat, Head(samples).lng)
         + SumScores(item, Tail(samples))

computeLearnedScore(geojson, item) ==
  LET samples == sampleCoordsFromGeojson(geojson, LearnedSamples)
  IN  IF Len(samples) = 0 THEN RatInt(0)
      ELSE Rat(SumScores(item, samples), Len(samples))

\* the hazard polygons of the NOAH overlay cover the cell of PC:
\* map.queryRenderedFeatures around a sample returns a feature there
QueryRenderedFeatures(p) == p = PC

\* variant that queries the hazard layers without looking for their source
computeNoahMutNoSourceTest(geojson, mapv, hazard) ==
  IF mapv # "created" THEN RatInt(0)
  ELSE LET samples == sampleCoordsFromGeojson(geojson, NoahSamples)
           hits == Cardinality({i \in 1..Len(samples) :
                                  QueryRenderedFeatures(samples[i])})
       IN  IF Len(samples) > 0 THEN Rat(hits, Len(samples)) ELSE RatInt(0)

computeNoahScore(geojson, mapv, hazard) ==
  IF mapv # "created" THEN RatInt(0)
  ELSE IF ~hazard THEN RatInt(0)
  ELSE LET samples == sampleCoordsFromGeojson(geojson, NoahSamples)
           hits == Cardinality({i \in 1..Len(samples) :
                                  QueryRenderedFeatures(samples[i])})
       IN  IF Len(samples) > 0 THEN Rat(hits, Len(samples)) ELSE RatInt(0)

(***************************************************************************)
(* Weather.  The value fetchAccuWeatherProxy returns: null (has = FALSE),  *)
(* or a payload with or without its current member.  pastHour is           *)
(* PrecipitationSummary.PastHour.Metric.Value in mm, text is WeatherText.  *)
(***************************************************************************)
AccuNull == [has |-> FALSE, current |-> FALSE, pastHour |-> 0, text |-> ""]

AccuNoCurrent == [has |-> TRUE, current |-> FALSE, pastHour |-> 0, text |-> ""]

AccuStorm ==
  [has |-> TRUE, current |-> TRUE, pastHour |-> 12, text |-> "Thunderstorm"]

\* what one request to the weather proxy may answer with a success status
AccuPayloads == {AccuNoCurrent, AccuStorm}

\* /thunderstorm|tornado|flood|severe/i.test(text) on the texts of the model
SevereText(text) ==
  text \in {"Thunderstorm", "Flash FLOOD warning", "Tornado watch", "severe storms"}

\* variant that takes missing weather for the heaviest rain
computeWeatherMutPenalty(accu) ==
  IF ~accu.has \/ ~accu.current
  THEN [rainScore |-> RainClamp, alertScore |-> 0, raw |-> AccuNull]
  ELSE [rainScore |-> Min(RainClamp, accu.pastHour),
        alertScore |-> IF SevereText(accu.text) THEN AlertScore ELSE 0,
        raw |-> accu]

\* computeWeatherScoreForPoint(lat, lng) after fetchAccuWeatherProxy
computeWeatherScoreForPoint(accu) ==
  IF ~accu.has \/ ~accu.current
  THEN [rainScore |-> 0, alertScore |-> 0, raw |-> AccuNull]
  ELSE LET rainMM == IF accu.pastHour # 0 THEN accu.pastHour ELSE 0
       IN  [rainScore |-> Min(RainClamp, rainMM),
            alertScore |-> IF accu.text # "" /\ SevereText(accu.text)
                           THEN AlertScore ELSE 0,
            raw |-> accu]

\* weather = { rainScore: 0, alertScore: 0, raw: null }
NoWeather == [rainScore |-> 0, alertScore |-> 0, raw |-> AccuNull]

wLearned == Rat(10, 10)

wNoah == Rat(30, 10)

wRain == Rat(2, 10)

wAlert == Rat(20, 10)

\* noahNorm = noah * 3.0
NoahNorm == Rat(30, 10)

\* variant of the combination without the normalisation of noah
CombinedMutNoNorm(learned, noah, weather) ==
  RatAdd(RatAdd(RatMul(wLearned, learned), RatMul(wNoah, noah)),
         RatAdd(RatMul(wRain, RatInt(weather.rainScore)),
                RatMul(wAlert, RatInt(weather.alertScore))))

\* (wLearned * learned) + (wNoah * noahNorm) + (wRain * rainScore) + (wAlert * alertScore)
Combined(learned, noah, weather) ==
  RatAdd(RatAdd(RatMul(wLearned, learned), RatMul(wNoah, RatMul(noah, NoahNorm))),
         RatAdd(RatMul(wRain, RatInt(weather.rainScore)),
                RatMul(wAlert, RatInt(weather.alertScore))))

\* the synchronous head of scoreRouteCombinedAsync: learned, noah and the
\* midpoint; reading geojson.coordinates of a missing geometry, the length
\* of missing coordinates, or destructuring coords[0] of an empty array throws
ScoreHead(geojson, item, mapv, hazard) ==
  IF ~geojson.has \/ ~geojson.hasCoords \/ Len(geojson.coordinates) = 0
  THEN [ok |-> FALSE, learned |-> RatInt(0), noah |-> RatInt(0), mid |-> <<0, 0>>]
  ELSE LET coords == geojson.coordinates
           midIdx == Len(coords) \div 2
       IN  [ok |-> TRUE,
            learned |-> computeLearnedScore(geojson, item),
            noah |-> computeNoahScore(geojson, mapv, hazard),
            mid |-> coords[midIdx + 1]]

(***************************************************************************)
(* scoreRoute of part_001: the inline sampling loop and the mean.          *)
(***************************************************************************)
\* for (let i = 0; i < pts.length; i += step) { total += score; c++ }
RECURSIVE ScoreLoop(_, _, _, _, _, _)
ScoreLoop(pts, i, step, item, total, c) ==
  IF i >= Len(pts) THEN [total |-> total, c |-> c]
  ELSE ScoreLoop(pts, i + step, step, item,
                 total + FL_score(item, pts[i + 1][2], pts[i + 1][1]), c + 1)

scoreRoute(geojson, item) ==
  IF ~geojson.has \/ ~geojson.hasCoords
  THEN [ok |-> FALSE, score |-> RatInt(0), c |-> 0]
  ELSE LET pts == geojson.coordinates
           step == Max(1, Len(pts) \div LegacySamples)
           acc == ScoreLoop(pts, 0, step, item, 0, 0)
       IN  [ok |-> TRUE,
            score |-> IF acc.c > 0 THEN Rat(acc.total, acc.c) ELSE RatInt(0),
            c |-> acc.c]

(***************************************************************************)
(* Selection.                                                              *)
(***************************************************************************)
\* variant of the sort step that puts e before the elements equal to it
InsertMutUnstable(sorted, e) ==
  LET k == Cardinality({i \in 1..Len(sorted) : RatLess(sorted[i].score, e.score)})
  IN  SubSeq(sorted, 1, k) \o <<e>> \o SubSeq(sorted, k + 1, Len(sorted))

\* one step of a stable ascending sort with (a, b) => a.score - b.score
Insert(sorted, e) ==
  LET k == Cardinality({i \in 1..Len(sorted) : RatLeq(sorted[i].score, e.score)})
  IN  SubSeq(sorted, 1, k) \o <<e>> \o SubSeq(sorted, k + 1, Len(sorted))

\* evaluations.sort((a,b) => a.score - b.score)
RECURSIVE SortByScore(_)
SortByScore(evs) ==
  IF evs = <<>> THEN <<>>
  ELSE Insert(SortByScore(SubSeq(evs, 1, Len(evs) - 1)), evs[Len(evs)])

NoBest == [has |-> FALSE, idx |-> 0, geo |-> NullGeo, score |-> RatInt(0)]

BestOf(e) == [has |-> TRUE, idx |-> e.idx, geo |-> e.geo, score |-> e.score]

\* part_001: if (sc < bestScore) { bestScore = sc; best = geo; }, bestScore = Infinity
KeepBest(best, e) ==
  IF ~best.has \/ RatLess(e.score, best.score) THEN BestOf(e) ELSE best

RECURSIVE RunningMin(_, _)
RunningMin(evs, best) ==
  IF evs = <<>> THEN best
  ELSE RunningMin(Tail(evs), KeepBest(best, Head(evs)))

(***************************************************************************)
(* Inputs of a submission and answers of the external services.            *)
(***************************************************************************)
\* a location text, split at "," and trimmed
T_Empty == <<"">>

T_Literal == <<"0.0002", "0.0003">>

T_Address == <<"Rizal Park">>

Texts == {T_Empty, T_Literal, T_Address}

\* parseFloat of one part: NaN unless the part is a decimal number
ParseFloat(s) ==
  CASE s = "0.0002" -> [nan |-> FALSE, v |-> 2]
    [] s = "0.0003" -> [nan |-> FALSE, v |-> 3]
    [] OTHER -> [nan |-> TRUE, v |-> 0]

NoLoc == [ok |-> FALSE, lat |-> 0, lng |-> 0]

Loc(lat, lng) == [ok |-> TRUE, lat |-> lat, lng |-> lng]

\* resolveLocation up to its first await: done when it returns without a
\* geocoding request.  part_001 has no "if (!text) return null".
ResolveHead(text, bld) ==
  IF bld = "app" /\ text = T_Empty THEN [done |-> TRUE, loc |-> NoLoc]
  ELSE IF Len(text) = 2 /\ ~ParseFloat(text[1]).nan /\ ~ParseFloat(text[2]).nan
  THEN [done |-> TRUE, loc |-> Loc(ParseFloat(text[1]).v, ParseFloat(text[2]).v)]
  ELSE [done |-> FALSE, loc |-> NoLoc]

\* answers of the geocoding service: a transport or HTTP failure, an empty
\* array, or an array whose first element is the place below
GeoAnswers == {"error", "empty", "hit"}

NominatimHit == [lat |-> "0.0002", lon |-> "0.0003"]

\* resolveLocation after the geocoding answer
GeocodeResult(ans) ==
  IF ans = "hit"
  THEN Loc(ParseFloat(NominatimHit.lat).v, ParseFloat(NominatimHit.lon).v)
  ELSE NoLoc

\* Number(threshold field) || 2: an empty field, "0" and a non-number give 2
ThresholdInputs == {0}

Threshold(v) == IF v = 0 THEN DefaultThreshold ELSE v

\* alternatives of the routing service
RouteA == [geometry |-> LineString(<<Pos(PA), Pos(PC)>>), steps |-> 2]

RouteB == [geometry |-> LineString(<<Pos(PB), Pos(PB)>>), steps |-> 3]

\* a geometry with no coordinates
RouteM == [geometry |-> LineString(<<>>), steps |-> 0]

\* a geometry without its coordinates member
RouteN == [geometry |-> NoCoordsGeo, steps |-> 0]

OsrmError == [ok |-> FALSE, routes |-> <<>>]

OsrmRoutes(rs) == [ok |-> TRUE, routes |-> rs]

\* answers of the routing service: an HTTP or transport error, no
\* alternative, or a list of alternatives
OsrmAnswers ==
  {OsrmError, OsrmRoutes(<<>>), OsrmRoutes(<<RouteA>>), OsrmRoutes(<<RouteA, RouteB>>),
   OsrmRoutes(<<RouteA, RouteM>>), OsrmRoutes(<<RouteA, RouteN>>)}

\* variant of the test below without the test for no alternative
OsrmOutcomeMutNoCheck(ans) == IF ~ans.ok THEN "error" ELSE "routes"

\* requestOSRMRoute and the test of what it returns: "error" when it throws
\* (!r.ok, or the fetch rejects), "none" when there is no alternative
OsrmOutcome(ans) ==
  IF ~ans.ok THEN "error" ELSE IF Len(ans.routes) = 0 THEN "none" ELSE "routes"

\* answers of one request to the weather proxy: a failure (not ok, or the
\* fetch throws), which AccuNull stands for, or a payload
AccuAnswers == {AccuNull} \cup AccuPayloads

(***************************************************************************)
(* State.                                                                  *)
(***************************************************************************)
\* invocations of handleRouting that may be in flight
Reqs == {1, 2}

\* the invocation used where submissions do not overlap
Sequential == {1}

VARIABLES
  build,          \* which script the page runs: "app" (app.js) or "legacy" (part_001)
  initPc,         \* initMap: "tiles", "noah", "ready", "failed"
  map,            \* the global map: "undefined" or "created"
  noahHazard,     \* whether the source "noahHazard" is on the map
  flood_grid,     \* the localStorage item "flood_grid"
  layers,         \* ids of the route layers on the map
  sources,        \* ids of the route sources on the map
  drawnRouteIds,  \* the global list drawnRouteIds
  status,         \* text of the status element
  req,            \* per invocation of handleRouting: its position and locals
  calls,          \* per invocation: geocoding and routing requests sent, calls of
                  \* fetchAccuWeatherProxy, calls of drawGeojsonRoute / drawRoute
  fn              \* argument and result of the sampler (SpecSampler only)

vars ==
  <<build, initPc, map, noahHazard, flood_grid, layers, sources, drawnRouteIds,
    status, req, calls, fn>>

St(msg) == [msg |-> msg, a |-> 0, b |-> 0]

St1(msg, a) == [msg |-> msg, a |-> a, b |-> 0]

St2(msg, a, b) == [msg |-> msg, a |-> a, b |-> b]

\* the directions list: its entries, or the single entry "No directions
\* available"; an invocation that has rendered nothing holds NoDirections
NoDirections == [entries |-> 0, none |-> FALSE]

\* renderDirections(route): one <li> per step of every leg, or the entry
\* "No directions available" for a route without legs (steps = 0 in the
\* routes of this model)
renderDirections(route) ==
  IF route.steps = 0 THEN [entries |-> 1, none |-> TRUE]
  ELSE [entries |-> route.steps, none |-> FALSE]

\* variant that hands the first route of the response to renderDirections
DirectionsRouteMutFirst(sorted, routes) == routes[1]

\* renderDirections(best.route) with best = evaluations[0]
DirectionsRoute(sorted, routes) == sorted[1].route

IdleReq ==
  [pc |-> "idle", destText |-> T_Empty, thresholdField |-> 0,
   threshold |-> DefaultThreshold,
   o |-> NoLoc, d |-> NoLoc, routes |-> <<>>, evals |-> <<>>, best |-> NoBest,
   fail |-> "", directions |-> NoDirections]

\* a finished invocation: its locals are gone; the model keeps how it ended
Failed(why) == [IdleReq EXCEPT !.pc = "failed", !.fail = why]

Selected(best) == [IdleReq EXCEPT !.pc = "selected", !.best = best]

NoCalls == [geocode |-> 0, route |-> 0, weather |-> 0, draw |-> 0]

FnIdle == [op |-> "idle", G |-> NullGeo, N |-> 1, out |-> <<>>, c |-> 0]

Range(seq) == {seq[i] : i \in 1..Len(seq)}

AltSuffix(i) == <<"alt", i>>

BestSuffix == <<"best", 0>>

\* `route-line-${idSuffix}` (part_001: `r-line-${id}`)
LineId(sfx) == <<"route-line", sfx>>

\* `route-src-${idSuffix}` (part_001: `r-src-${id}`)
SrcId(sfx) == <<"route-src", sfx>>

\* clearRoutes: for each id of drawnRouteIds, remove the layer with that id
\* and the source with that id; then empty the list
ClearedLayers == layers \ Range(drawnRouteIds)

ClearedSources == sources \ Range(drawnRouteIds)

Init ==
  /\ build \in {"app", "legacy"}
  /\ initPc = "tiles"
  /\ map = "undefined"
  /\ noahHazard = FALSE
  /\ flood_grid \in {NoItem, FL_increment(NoItem, PC.lat, PC.lng)}
  /\ layers = {}
  /\ sources = {}
  /\ drawnRouteIds = <<>>
  /\ status = IF build = "app" THEN St("Checking NOAH tiles...") ELSE St("Map loading...")
  /\ req = [r \in Reqs |-> IdleReq]
  /\ calls = [r \in Reqs |-> NoCalls]
  /\ fn = FnIdle

(***************************************************************************)
(* initMap.                                                                *)
(***************************************************************************)
\* the tile test has answered: the map is constructed (the constructor may
\* throw), the click handler is registered, the hazard polygons are requested
TilesTested(outcome) ==
  /\ initPc = "tiles"
  /\ IF outcome = "created"
     THEN /\ map' = "created"
          /\ initPc' = "noah"
          /\ status' = St("Loading NOAH hazard polygons...")
     ELSE /\ map' = map
          /\ initPc' = "failed"
          /\ status' = IF build = "app"
                       THEN St("Map initialization failed. See console.")
                       ELSE status
  /\ UNCHANGED <<build, noahHazard, flood_grid, layers, sources, drawnRouteIds,
                 req, calls, fn>>

\* the hazard polygons have been loaded, or every attempt has failed.  The
\* attempts of attemptLoadNoahGeoJSON (proxy candidates, then the direct
\* address) change no state between them and are taken as one step.
NoahDone(loaded) ==
  /\ initPc = "noah"
  /\ initPc' = "ready"
  /\ noahHazard' = loaded
  /\ status' = IF build = "app" THEN St("Map ready.")
               ELSE IF loaded THEN St("NOAH hazard polygons loaded.")
               ELSE St("NOAH hazard polygons unavailable.")
  /\ UNCHANGED <<build, map, flood_grid, layers, sources, drawnRouteIds, req, calls, fn>>

(***************************************************************************)
(* Map click and the clear-memory button.                                  *)
(***************************************************************************)
\* variant whose write is lost while a request awaits its weather answers
MapClickMutLost(p) ==
  /\ map = "created"
  /\ TotalReports(flood_grid) < MaxReports
  /\ flood_grid' = IF \E r \in Reqs : req[r].pc = "scoring"
                   THEN flood_grid
                   ELSE FL_increment(flood_grid, p.lat, p.lng)
  /\ status' = St1(IF build = "app" THEN "Flood report recorded (count=a)"
                   ELSE "Flood report added (count = a)",
                   Lookup(FL_all(flood_grid), FL_key(p.lat, p.lng)) + 1)
  /\ UNCHANGED <<build, initPc, map, noahHazard, layers, sources, drawnRouteIds,
                 req, calls, fn>>

MapClick(p) ==
  /\ map = "created"
  /\ TotalReports(flood_grid) < MaxReports
  /\ flood_grid' = FL_increment(flood_grid, p.lat, p.lng)
  /\ status' = St1(IF build = "app" THEN "Flood report recorded (count=a)"
                   ELSE "Flood report added (count = a)",
                   flood_grid'.json[FL_key(p.lat, p.lng)])
  /\ UNCHANGED <<build, initPc, map, noahHazard, layers, sources, drawnRouteIds,
                 req, calls, fn>>

ClearMemory ==
  /\ flood_grid' = FL_clear(flood_grid)
  /\ status' = St("Local flood memory cleared.")
  /\ IF build = "app"
     THEN /\ layers' = ClearedLayers
          /\ sources' = ClearedSources
          /\ drawnRouteIds' = <<>>
     ELSE UNCHANGED <<layers, sources, drawnRouteIds>>
  /\ UNCHANGED <<build, initPc, map, noahHazard, req, calls, fn>>

(***************************************************************************)
(* handleRouting.                                                          *)
(***************************************************************************)
StResolving ==
  IF build = "app" THEN St("Resolving origin & destination...")
  ELSE St("Resolving locations...")

StUnresolved ==
  IF build = "app"
  THEN St("Could not resolve origin or destination. Use lat,lng or a valid address.")
  ELSE St("Failed to resolve origin or destination.")

StRoutingFailed ==
  IF build = "app" THEN St("Routing failed (see console).") ELSE St("Routing failed.")

StNoRoutes ==
  IF build = "app" THEN St("No routes found.") ELSE St("No routes returned.")

StBest(score) == St1("Best route selected (risk a).", ToFixed2(score))

StWarning(score, threshold) ==
  IF build = "app"
  THEN St2("Warning: best route risk a >= threshold b. Consider detour.",
           ToFixed2(score), threshold)
  ELSE St1("Warning: route risk a exceeds threshold.", ToFixed2(score))

\* variant of the test below that looks at the origin only
AfterResolveMutOriginOnly(rec) ==
  IF ~rec.o.ok
  THEN [req |-> Failed("resolve"),
        status |-> StUnresolved, route |-> 0]
  ELSE [req |-> [rec EXCEPT !.pc = "osrm"],
        status |-> St("Requesting OSRM routes..."), route |-> 1]

\* both locations have been awaited: if (!o || !d) { setStatus(...); return; },
\* else the routing request is sent
AfterResolve(rec) ==
  IF ~rec.o.ok \/ ~rec.d.ok
  THEN [req |-> Failed("resolve"),
        status |-> StUnresolved, route |-> 0]
  ELSE [req |-> [rec EXCEPT !.pc = "osrm"],
        status |-> St("Requesting OSRM routes..."), route |-> 1]

\* the form is submitted: handleRouting runs up to its first pending await
Submit(r, ot, dt, th) ==
  /\ req[r].pc \in {"idle", "selected", "failed"}
  /\ LET h1 == ResolveHead(ot, build)
         h2 == ResolveHead(dt, build)
         base == [IdleReq EXCEPT !.thresholdField = th, !.threshold = Threshold(th)]
     IN  IF ~h1.done
         THEN /\ req' = [req EXCEPT ![r] = [base EXCEPT !.pc = "geoO", !.destText = dt]]
              /\ calls' = [calls EXCEPT ![r] = [NoCalls EXCEPT !.geocode = 1]]
              /\ status' = StResolving
         ELSE IF ~h2.done
         THEN /\ req' = [req EXCEPT ![r] = [base EXCEPT !.pc = "geoD", !.o = h1.loc]]
              /\ calls' = [calls EXCEPT ![r] = [NoCalls EXCEPT !.geocode = 1]]
              /\ status' = StResolving
         ELSE LET res == AfterResolve([base EXCEPT !.o = h1.loc, !.d = h2.loc])
              IN  /\ req' = [req EXCEPT ![r] = res.req]
                  /\ calls' = [calls EXCEPT ![r] = [NoCalls EXCEPT !.route = res.route]]
                  /\ status' = res.status
  /\ UNCHANGED <<build, initPc, map, noahHazard, flood_grid, layers, sources,
                 drawnRouteIds, fn>>

\* the geocoding service answers the request for the origin or the destination
GeocodeAnswer(r, ans) ==
  /\ req[r].pc \in {"geoO", "geoD"}
  /\ IF req[r].pc = "geoO"
     THEN LET h2 == ResolveHead(req[r].destText, build)
              rec == [req[r] EXCEPT !.o = GeocodeResult(ans), !.destText = T_Empty]
          IN  IF ~h2.done
              THEN /\ req' = [req EXCEPT ![r] = [rec EXCEPT !.pc = "geoD"]]
                   /\ calls' = [calls EXCEPT ![r].geocode = @ + 1]
                   /\ status' = status
              ELSE LET res == AfterResolve([rec EXCEPT !.d = h2.loc])
                   IN  /\ req' = [req EXCEPT ![r] = res.req]
                       /\ calls' = [calls EXCEPT ![r].route = @ + res.route]
                       /\ status' = res.status
     ELSE LET res == AfterResolve([req[r] EXCEPT !.d = GeocodeResult(ans)])
          IN  /\ req' = [req EXCEPT ![r] = res.req]
              /\ calls' = [calls EXCEPT ![r].route = @ + res.route]
              /\ status' = res.status
  /\ UNCHANGED <<build, initPc, map, noahHazard, flood_grid, layers, sources,
                 drawnRouteIds, fn>>

\* one candidate whose weather request is in flight
PendingEval(i, route, head) ==
  [idx |-> i - 1, geo |-> route.geometry, route |-> route, st |-> "try1",
   learned |-> head.learned, noah |-> head.noah, weather |-> NoWeather,
   score |-> RatInt(0)]

\* app.js: the routing service answers
OsrmAnswerApp(r, ans) ==
  /\ build = "app"
  /\ req[r].pc = "osrm"
  /\ IF OsrmOutcome(ans) = "error"
     THEN /\ req' = [req EXCEPT ![r] = Failed("routing")]
          /\ status' = StRoutingFailed
          /\ UNCHANGED <<layers, sources, drawnRouteIds, calls>>
     ELSE IF OsrmOutcome(ans) = "none"
     THEN /\ req' = [req EXCEPT ![r] = Failed("noroutes")]
          /\ status' = StNoRoutes
          /\ UNCHANGED <<layers, sources, drawnRouteIds, calls>>
     ELSE LET n == Len(ans.routes)
              heads == [i \in 1..n |->
                          ScoreHead(ans.routes[i].geometry, flood_grid, map, noahHazard)]
              issued == Cardinality({i \in 1..n : heads[i].ok})
          IN  /\ layers' = ClearedLayers
              /\ sources' = ClearedSources
              /\ drawnRouteIds' = <<>>
              /\ calls' = [calls EXCEPT ![r].weather = @ + issued]
              /\ IF issued = n
                 THEN /\ req' = [req EXCEPT ![r].pc = "scoring",
                                            ![r].routes = ans.routes,
                                            ![r].evals = [i \in 1..n |->
                                               PendingEval(i, ans.routes[i], heads[i])]]
                      /\ status' = status
                 ELSE /\ req' = [req EXCEPT ![r] = Failed("scoring")]
                      /\ status' = StRoutingFailed
  /\ UNCHANGED <<build, initPc, map, noahHazard, flood_grid, fn>>

\* await Promise.all(...): every evaluation has settled
AllSettledMutAny(evs) == \E j \in 1..Len(evs) : evs[j].st = "done"

\* variant that never sees the evaluations settled
AllSettledMutNever(evs) == Len(evs) = 0

AllSettled(evs) == \A j \in 1..Len(evs) : evs[j].st = "done"

\* what the first map manipulation of drawGeojsonRoute does: it works, or
\* the map throws (getLayer, removeLayer, removeSource, addSource, addLayer)
DrawOutcomes == {"ok", "throws"}

\* drawGeojsonRoute for every sorted evaluation and for the best one
DrawnIds(n) == [i \in 1..(n + 1) |->
                  IF i <= n THEN LineId(AltSuffix(i - 1)) ELSE LineId(BestSuffix)]

DrawnSources(n) == {SrcId(AltSuffix(i)) : i \in 0..(n - 1)} \cup {SrcId(BestSuffix)}

\* variant that computes the learned sub-score after the weather answer
ScoredMutLateLearned(evals, i, ans) ==
  [evals EXCEPT ![i] =
     CHOOSE e2 \in {[e EXCEPT !.st = "done", !.weather = w, !.learned = l,
                               !.score = Combined(l, e.noah, w)] :
                      e \in {evals[i]}, w \in {computeWeatherScoreForPoint(ans)},
                      l \in {computeLearnedScore(evals[i].geo, flood_grid)}} : TRUE]

\* the evaluations once the weather of candidate i is known: its sub-scores
\* are combined (app.js 433-444)
Scored(evals, i, ans) ==
  [evals EXCEPT ![i] =
     CHOOSE e2 \in {[e EXCEPT !.st = "done", !.weather = w,
                               !.score = Combined(e.learned, e.noah, w)] :
                      e \in {evals[i]}, w \in {computeWeatherScoreForPoint(ans)}} : TRUE]

\* app.js: the weather proxy answers the request of candidate i; when the last
\* candidate is scored the evaluations are sorted, drawn and the best selected
WeatherAnswer(r, i, ans) ==
  /\ build = "app"
  /\ req[r].pc = "scoring"
  /\ i \in 1..Len(req[r].evals)
  /\ req[r].evals[i].st \in {"try1", "try2"}
  /\ IF ~ans.has /\ req[r].evals[i].st = "try1"
     THEN /\ req' = [req EXCEPT ![r].evals[i].st = "try2"]
          /\ UNCHANGED <<layers, sources, drawnRouteIds, status, calls>>
     ELSE \E evs \in {Scored(req[r].evals, i, ans)} :
            IF ~AllSettled(evs)
            THEN /\ req' = [req EXCEPT ![r].evals = evs]
                 /\ UNCHANGED <<layers, sources, drawnRouteIds, status, calls>>
            ELSE \E dr \in DrawOutcomes, sorted \in {SortByScore(evs)}, n \in {Len(evs)} :
                IF map # "created" \/ dr = "throws"
                THEN /\ req' = [req EXCEPT ![r] = Failed("render")]
                     /\ status' = StRoutingFailed
                     /\ UNCHANGED <<layers, sources, drawnRouteIds, calls>>
                ELSE /\ req' = [req EXCEPT ![r].pc = "panels", ![r].evals = sorted,
                                           ![r].best = BestOf(sorted[1]),
                                           ![r].directions =
                                              renderDirections(
                                                DirectionsRoute(sorted, req[r].routes))]
                     /\ layers' = layers \cup Range(DrawnIds(n))
                     /\ sources' = sources \cup DrawnSources(n)
                     /\ drawnRouteIds' = drawnRouteIds \o DrawnIds(n)
                     /\ status' = StBest(sorted[1].score)
                     /\ calls' = [calls EXCEPT ![r].draw = @ + n + 1,
                                               ![r].weather = @ + 2]
  /\ UNCHANGED <<build, initPc, map, noahHazard, flood_grid, fn>>

\* app.js: both renderWeatherForPoint calls have finished (they change the
\* weather panels only); the popup is shown and the threshold is checked
PanelsDone(r) ==
  /\ build = "app"
  /\ req[r].pc = "panels"
  /\ req' = [req EXCEPT ![r] = [Selected(req[r].best) EXCEPT
                                  !.directions = req[r].directions]]
  /\ status' = IF RatLeq(RatInt(req[r].threshold), req[r].best.score)
               THEN StWarning(req[r].best.score, req[r].threshold)
               ELSE status
  /\ UNCHANGED <<build, initPc, map, noahHazard, flood_grid, layers, sources,
                 drawnRouteIds, calls, fn>>

\* part_001: the routing service answers; every route is scored and drawn in
\* the same turn, the first iteration that throws ends the loop
OsrmAnswerLegacy(r, ans) ==
  /\ build = "legacy"
  /\ req[r].pc = "osrm"
  /\ IF OsrmOutcome(ans) = "error"
     THEN /\ req' = [req EXCEPT ![r] = Failed("routing")]
          /\ status' = StRoutingFailed
          /\ UNCHANGED <<layers, sources, calls>>
     ELSE IF OsrmOutcome(ans) = "none"
     THEN /\ req' = [req EXCEPT ![r] = Failed("noroutes")]
          /\ status' = StNoRoutes
          /\ UNCHANGED <<layers, sources, calls>>
     ELSE LET n == Len(ans.routes)
              scs == [i \in 1..n |-> scoreRoute(ans.routes[i].geometry, flood_grid)]
              throwing == {i \in 1..n : ~scs[i].ok \/ map # "created"}
              t == IF throwing = {} THEN n + 1
                   ELSE CHOOSE i \in throwing : \A j \in throwing : i <= j
              evs == [i \in 1..(t - 1) |->
                        [idx |-> i - 1, geo |-> ans.routes[i].geometry, st |-> "done",
                         learned |-> scs[i].score, noah |-> RatInt(0),
                         weather |-> NoWeather, score |-> scs[i].score]]
              best == RunningMin(evs, NoBest)
              alts == 0..(t - 2)
          IN  IF t <= n
              THEN /\ req' = [req EXCEPT ![r] = Failed("scoring")]
                   /\ layers' = layers \cup {LineId(AltSuffix(i)) : i \in alts}
                   /\ sources' = sources \cup {SrcId(AltSuffix(i)) : i \in alts}
                   /\ calls' = [calls EXCEPT ![r].draw = @ + (t - 1)]
                   /\ status' = StRoutingFailed
              ELSE /\ req' = [req EXCEPT ![r] = Selected(best)]
                   /\ layers' = layers \cup {LineId(AltSuffix(i)) : i \in alts}
                                       \cup {LineId(BestSuffix)}
                   /\ sources' = sources \cup {SrcId(AltSuffix(i)) : i \in alts}
                                         \cup {SrcId(BestSuffix)}
                   /\ calls' = [calls EXCEPT ![r].draw = @ + n + 1]
                   /\ status' = IF RatLeq(RatInt(req[r].threshold), best.score)
                                THEN StWarning(best.score, req[r].threshold)
                                ELSE StBest(best.score)
  /\ UNCHANGED <<build, initPc, map, noahHazard, flood_grid, drawnRouteIds, fn>>

Next ==
  \/ \E outcome \in {"created"} : TilesTested(outcome)
  \/ \E loaded \in BOOLEAN : NoahDone(loaded)
  \/ \E p \in Points : MapClick(p)
  \/ ClearMemory
  \/ \E r \in Sequential, ot \in Texts, dt \in Texts, th \in ThresholdInputs : Submit(r, ot, dt, th)
  \/ \E r \in Sequential, ans \in GeoAnswers : GeocodeAnswer(r, ans)
  \/ \E r \in Sequential, ans \in OsrmAnswers : OsrmAnswerApp(r, ans)
  \/ \E r \in Sequential, i \in 1..2, ans \in AccuAnswers : WeatherAnswer(r, i, ans)
  \/ \E r \in Sequential : PanelsDone(r)
  \/ \E r \in Sequential, ans \in OsrmAnswers : OsrmAnswerLegacy(r, ans)

Spec == Init /\ [][Next]_vars

(***************************************************************************)
(* The sampler as a function of its arguments: every geometry of           *)
(* SamplerGeos and every size of SampleSizes is handed to                  *)
(* sampleCoordsFromGeojson (app.js) and to the loop of scoreRoute          *)
(* (part_001), which has the size 30 built in.                             *)
(***************************************************************************)
\* a line of L positions
LongLine(L) == LineString([i \in 1..L |-> Pos(PA)])

\* lengths around the first and the second multiple of the built-in size
LongLens ==
  {LegacySamples, LegacySamples + 1, 2 * LegacySamples - 1, 2 * LegacySamples,
   2 * LegacySamples + 1}

SamplerGeos ==
  {NullGeo, NoCoordsGeo}
    \cup {LineString(cs) : cs \in UNION {[1..k -> {Pos(PA), Pos(PC)}] : k \in 0..MaxLen}}
    \cup {LongLine(L) : L \in LongLens}

SampleSizes == (1..MaxN) \cup {NoahSamples, LearnedSamples}

SamplerInit ==
  /\ build \in {"app", "legacy"}
  /\ initPc = "tiles"
  /\ map = "undefined"
  /\ noahHazard = FALSE
  /\ flood_grid = NoItem
  /\ layers = {}
  /\ sources = {}
  /\ drawnRouteIds = <<>>
  /\ status = IF build = "app" THEN St("Checking NOAH tiles...") ELSE St("Map loading...")
  /\ req = [r \in Reqs |-> IdleReq]
  /\ calls = [r \in Reqs |-> NoCalls]
  /\ fn \in {[FnIdle EXCEPT !.G = g, !.N = n] : g \in SamplerGeos, n \in SampleSizes}

\* app.js: out = sampleCoordsFromGeojson(G, N)
ApplySampler ==
  /\ build = "app"
  /\ fn.op = "idle"
  /\ fn' = [fn EXCEPT !.op = "sampled", !.out = sampleCoordsFromGeojson(fn.G, fn.N)]
  /\ UNCHANGED <<build, initPc, map, noahHazard, flood_grid, layers, sources,
                 drawnRouteIds, status, req, calls>>

\* part_001: scoreRoute(G); c counts the points its loop has visited
ApplyScoreRoute ==
  /\ build = "legacy"
  /\ fn.op = "idle"
  /\ LET res == scoreRoute(fn.G, flood_grid)
     IN  fn' = IF res.ok THEN [fn EXCEPT !.op = "inline", !.c = res.c]
               ELSE [fn EXCEPT !.op = "threw"]
  /\ UNCHANGED <<build, initPc, map, noahHazard, flood_grid, layers, sources,
                 drawnRouteIds, status, req, calls>>

SamplerNext == ApplySampler \/ ApplyScoreRoute

SpecSampler == SamplerInit /\ [][SamplerNext]_vars

(***************************************************************************)
(* Properties of the sampler.                                              *)
(***************************************************************************)
\* G has no coordinates, or is missing
EmptyGeo(g) == ~g.has \/ ~g.hasCoords \/ Len(g.coordinates) = 0

\* C1: for every geometry G and every maximum N >= 1,
\* sampleCoordsFromGeojson(G, N) returns at most N points, and the sampling
\* loop of scoreRoute visits at most 30 points.
C1_AtMostN ==
  /\ fn.op = "sampled" => Len(fn.out) <= fn.N
  /\ fn.op = "inline" => fn.c <= LegacySamples

\* C2: for every geometry G and N >= 1, the output of the sampler is empty
\* if and only if G has no coordinates or is missing, and when G is not
\* empty the first output point is the first coordinate of G.
C2_EmptyIffAndFirst ==
  fn.op = "sampled" =>
    /\ (Len(fn.out) = 0) <=> EmptyGeo(fn.G)
    /\ ~EmptyGeo(fn.G) =>
         fn.out[1] = [lat |-> fn.G.coordinates[1][2], lng |-> fn.G.coordinates[1][1]]

\* a line whose first two positions differ has been sampled with a stride
\* above 1: the output is shorter than the line
C2_Witness ==
  /\ fn.op = "sampled"
  /\ Len(fn.out) >= 2
  /\ Len(fn.G.coordinates) > Len(fn.out)
  /\ fn.G.coordinates[1] # fn.G.coordinates[2]

(***************************************************************************)
(* Properties of the selection and of the composite score.                 *)
(***************************************************************************)
\* app.js, after the sort: the evaluations are the candidates of the
\* response, and the best one has the least score and, among the
\* evaluations with that score, the least index of the response
C3_AppSelected(r) ==
  LET evs == req[r].evals
      b == req[r].best
      n == Len(evs)
  IN  /\ b.has
      /\ n = Len(req[r].routes)
      /\ {evs[j].idx : j \in 1..n} = 0..(n - 1)
      /\ \A j \in 1..n : evs[j].geo = req[r].routes[evs[j].idx + 1].geometry
      /\ \E j \in 1..n : evs[j].idx = b.idx /\ evs[j].score = b.score /\ evs[j].geo = b.geo
      /\ \A j \in 1..n :
           /\ RatLeq(b.score, evs[j].score)
           /\ evs[j].score = b.score => b.idx <= evs[j].idx

\* part_001, the step that scores and selects: the best candidate has the
\* least score of the response and the least index among those with it
C3_LegacySelected(r, ans) ==
  LET n == Len(ans.routes)
      b == req'[r].best
  IN  /\ b.has
      /\ b.idx \in 0..(n - 1)
      /\ b.geo = ans.routes[b.idx + 1].geometry
      /\ b.score = scoreRoute(b.geo, flood_grid).score
      /\ \A j \in 1..n :
           LET sc == scoreRoute(ans.routes[j].geometry, flood_grid).score
           IN  /\ RatLeq(b.score, sc)
               /\ sc = b.score => b.idx <= j - 1

\* C3: the selected route is a candidate with the minimum composite score,
\* and among candidates sharing the minimum the first of the response is
\* selected, in the sort-based selection of app.js and in the
\* running-minimum selection of part_001.
C3_SelectsFirstMinimum ==
  /\ [](\A r \in Reqs : (build = "app" /\ req[r].pc = "panels") => C3_AppSelected(r))
  /\ [][\A r \in Reqs, ans \in OsrmAnswers :
          (OsrmAnswerLegacy(r, ans) /\ req'[r].pc = "selected")
            => C3_LegacySelected(r, ans)]_vars

\* app.js has selected candidate 0 out of two candidates with the same
\* score above 0
C3_Witness ==
  \E r \in Reqs :
    /\ build = "app"
    /\ req[r].pc = "panels"
    /\ Len(req[r].evals) = 2
    /\ req[r].evals[1].score = req[r].evals[2].score
    /\ req[r].evals[1].score.n > 0
    /\ req[r].best.idx = 0

\* C4: the composite score of every scored candidate equals
\* 1.0*learned + 3.0*(hazard*3.0) + 0.2*rain + 2.0*alert of the sub-scores
\* computed for it, whatever else the state holds (both sides multiplied by
\* 5 and by the denominators of learned and hazard).
C4_CompositeFormula ==
  \A r \in Reqs :
    \A i \in 1..Len(req[r].evals) :
      LET e == req[r].evals[i]
          l == e.learned
          h == e.noah
      IN  (build = "app" /\ e.st = "done") =>
            e.score.n * (5 * l.d * h.d)
              = e.score.d * (5 * l.n * h.d + 45 * h.n * l.d
                               + e.weather.rainScore * l.d * h.d
                               + 10 * e.weather.alertScore * l.d * h.d)

\* a candidate has been scored with every sub-score above 0
C4_Witness ==
  \E r \in Reqs :
    \E i \in 1..Len(req[r].evals) :
      LET e == req[r].evals[i]
      IN  /\ build = "app"
          /\ e.st = "done"
          /\ e.learned.n > 0
          /\ e.noah.n > 0
          /\ e.weather.rainScore > 0
          /\ e.weather.alertScore > 0

(***************************************************************************)
(* Properties of the report grid.                                          *)
(***************************************************************************)
\* a coordinate no click of the model reports
PD == [lat |-> -6, lng |-> 14]

ProbePoints == Points \cup {PD}

ScoreAt(item, q) == FL_score(item, q.lat, q.lng)

AllZero(item) == \A q \in ProbePoints : ScoreAt(item, q) = 0

\* C5: after increment(lat, lng) the score at every coordinate that
\* quantizes to the same key is at least 1, and over steps that are not a
\* clear the score of every cell never decreases.
C5_IncrementRaisesScore ==
  [][/\ \A p \in Points :
          MapClick(p) =>
            \A q \in ProbePoints :
              FL_key(q.lat, q.lng) = FL_key(p.lat, p.lng) => ScoreAt(flood_grid', q) >= 1
     /\ ~ClearMemory =>
          \A q \in ProbePoints : ScoreAt(flood_grid', q) >= ScoreAt(flood_grid, q)]_vars

\* the cell shared by PA and PB has been reported twice, and the score at
\* both coordinates is 2
C5_Witness ==
  /\ status.msg \in {"Flood report recorded (count=a)", "Flood report added (count = a)"}
  /\ status.a = 2
  /\ ScoreAt(flood_grid, PA) = 2
  /\ ScoreAt(flood_grid, PB) = 2

\* C6: after clear(), and as long as no increment follows, score is 0 at
\* every coordinate, whatever was reported before the clear.
C6_ClearZeroes ==
  [][(ClearMemory \/ (AllZero(flood_grid) /\ ~(\E p \in Points : MapClick(p))))
       => AllZero(flood_grid')]_vars

\* the grid has been cleared while a request still holds a learned score
\* above 0 that it computed from the reports made before the clear
C6_Witness ==
  /\ status.msg = "Local flood memory cleared."
  /\ AllZero(flood_grid)
  /\ \E r \in Reqs :
       /\ req[r].pc = "scoring"
       /\ \E i \in 1..Len(req[r].evals) : req[r].evals[i].learned.n > 0

\* every count of the grid is an integer >= 0
CountsNat ==
  LET g == FL_all(flood_grid) IN \A k \in DOMAIN g : g[k] \in Nat

\* a step raises the count of cell k only as a click at k, by exactly 1,
\* leaving every other cell as it was
RaisedOnlyByClick ==
  LET g == FL_all(flood_grid)
      h == FL_all(flood_grid')
  IN  \A k \in DOMAIN g \cup DOMAIN h :
        Lookup(h, k) > Lookup(g, k) =>
          /\ \E p \in Points : MapClick(p) /\ FL_key(p.lat, p.lng) = k
          /\ Lookup(h, k) = Lookup(g, k) + 1
          /\ \A k2 \in (DOMAIN g \cup DOMAIN h) \ {k} : Lookup(h, k2) = Lookup(g, k2)

\* C7: every count is an integer >= 0; only a map click raises a count, by
\* exactly 1 at the clicked cell and leaving the other cells unchanged; no
\* step other than a click or the clear action changes the grid, so no step
\* of the routing flow does.
C7_CountsOnlyByClick ==
  /\ []CountsNat
  /\ [][/\ RaisedOnlyByClick
        /\ (~ClearMemory /\ ~(\E p \in Points : MapClick(p)))
             => flood_grid' = flood_grid]_vars

\* a request has gone through scoring and selection while the grid holds
\* two reports
C7_Witness ==
  /\ TotalReports(flood_grid) >= 2
  /\ CountsNat
  /\ \E r \in Reqs : req[r].pc = "selected" /\ calls[r].draw > 0

(***************************************************************************)
(* Properties of the routing flow.                                         *)
(***************************************************************************)
\* the weather service gives no usable answer
Unavailable(ans) == ~ans.has \/ ~ans.current

\* the answer ans for candidate i is the last one request r waits for, and
\* no candidate of r has a learned, hazard or weather sub-score
LastAnswerNoRisk(r, i, ans) ==
  LET evs == req[r].evals
  IN  /\ Unavailable(ans)
      /\ ans.has \/ evs[i].st = "try2"
      /\ \A j \in 1..Len(evs) :
           /\ evs[j].learned = RatInt(0)
           /\ evs[j].noah = RatInt(0)
           /\ j # i => (evs[j].st = "done" /\ evs[j].weather = NoWeather)

\* C8: when the grid is empty, no hazard layer is loaded and the weather
\* service is unavailable, every candidate of a request gets composite score
\* 0 and the request selects the candidate at index 0 of the response: a
\* request that is given candidates goes on to score them all, and when the
\* last weather answer is in, it has selected index 0 with every score 0.
C8_EmptySelectsFirst ==
  [][\A r \in Reqs :
       /\ \A ans \in OsrmAnswers :
            (/\ OsrmAnswerApp(r, ans)
             /\ OsrmOutcome(ans) = "routes"
             /\ TotalReports(flood_grid) = 0
             /\ ~noahHazard)
              => /\ req'[r].pc = "scoring"
                 /\ Len(req'[r].evals) = Len(ans.routes)
       /\ \A i \in 1..2, ans \in AccuAnswers :
            (/\ WeatherAnswer(r, i, ans)
             /\ TotalReports(flood_grid) = 0
             /\ ~noahHazard
             /\ LastAnswerNoRisk(r, i, ans))
              => /\ req'[r].pc = "panels"
                 /\ req'[r].best.idx = 0
                 /\ \A j \in 1..Len(req'[r].evals) : req'[r].evals[j].score = RatInt(0)]_vars

\* a request whose origin or destination is unresolved sends no routing
\* request and is not routed
UnresolvedNotRouted(r) ==
  /\ req[r].pc = "osrm" => (req[r].o.ok /\ req[r].d.ok)
  /\ req[r].fail = "resolve" => (req[r].pc = "failed" /\ calls[r].route = 0)
  /\ calls[r].route > 0 => req[r].pc \notin {"geoO", "geoD"}

\* a geocoding answer without a hit, or a pending destination after an
\* unresolved origin, never leads to the routing request; the step that
\* ends the resolution with a failure shows the failure status
UnresolvedFails(r) ==
  /\ \A ans \in GeoAnswers \ {"hit"} :
       GeocodeAnswer(r, ans) =>
         \/ req'[r].pc = "geoD" /\ ~req'[r].o.ok
         \/ req'[r].fail = "resolve"
  /\ (req[r].pc = "geoD" /\ ~req[r].o.ok /\ req'[r] # req[r]) => req'[r].fail = "resolve"
  /\ (req'[r].fail = "resolve" /\ (req[r].fail # "resolve" \/ calls'[r] # calls[r]))
       => (status' = StUnresolved /\ calls'[r].route = 0)

\* C9: if the origin or the destination of a submission cannot be resolved
\* (no literal pair, and no geocoding hit or a geocoding failure), the
\* request ends in Failed with the failure status shown and no routing
\* request is issued for it.
C9_UnresolvedNoRouting ==
  /\ [](\A r \in Reqs : UnresolvedNotRouted(r))
  /\ [][\A r \in Reqs : UnresolvedFails(r)]_vars

\* both locations went to the geocoding service and the request has failed
\* at the resolution
C9_Witness ==
  \E r \in Reqs :
    /\ req[r].fail = "resolve"
    /\ calls[r].geocode = 2
    /\ calls[r].route = 0
    /\ status = StUnresolved

\* C10: if the routing service answers with an error or with no
\* alternative, the request ends in Failed with a failure status: nothing is
\* scored, no weather request is issued and no route is drawn for it.
C10_RoutingFailureHalts ==
  /\ [](\A r \in Reqs :
          req[r].fail \in {"routing", "noroutes"} =>
            /\ req[r].pc = "failed"
            /\ req[r].evals = <<>>
            /\ calls[r].weather = 0
            /\ calls[r].draw = 0)
  /\ [][\A r \in Reqs, ans \in OsrmAnswers :
          ((OsrmAnswerApp(r, ans) \/ OsrmAnswerLegacy(r, ans))
             /\ (~ans.ok \/ Len(ans.routes) = 0))
            => /\ req'[r].pc = "failed"
               /\ req'[r].fail \in {"routing", "noroutes"}
               /\ status' \in {StRoutingFailed, StNoRoutes}
               /\ layers' = layers
               /\ sources' = sources
               /\ drawnRouteIds' = drawnRouteIds]_vars

\* a request has failed at the routing service while the routes of an
\* earlier request are on the map
C10_Witness ==
  \E r \in Reqs :
    /\ req[r].fail \in {"routing", "noroutes"}
    /\ calls[r].route = 1
    /\ layers # {}
    /\ status \in {StRoutingFailed, StNoRoutes}

(***************************************************************************)
(* The threshold field.  One request at a time with literal coordinates    *)
(* and a response of two alternatives; the threshold field holds one of    *)
(* ThresholdValues when the form is submitted.                             *)
(***************************************************************************)
\* numbers typed into the threshold field
ThresholdValues == {0, 1, 3}

TwoRoutes == OsrmRoutes(<<RouteA, RouteB>>)

NextThreshold ==
  \/ TilesTested("created")
  \/ \E loaded \in BOOLEAN : NoahDone(loaded)
  \/ MapClick(PA)
  \/ \E r \in Sequential, th \in ThresholdValues : Submit(r, T_Literal, T_Literal, th)
  \/ \E r \in Sequential : OsrmAnswerApp(r, TwoRoutes)
  \/ \E r \in Sequential, i \in 1..2, ans \in AccuPayloads : WeatherAnswer(r, i, ans)
  \/ \E r \in Sequential : PanelsDone(r)
  \/ \E r \in Sequential : OsrmAnswerLegacy(r, TwoRoutes)

SpecThreshold == Init /\ [][NextThreshold]_vars

WarningMsgs ==
  {"Warning: best route risk a >= threshold b. Consider detour.",
   "Warning: route risk a exceeds threshold."}

\* C11: for every number configured in the threshold field, a request that
\* reaches Selected shows the warning status whenever the score of the
\* selected route is >= that number; the warning changes neither the
\* selected route nor the number of routing requests.
C11_WarningAtThreshold ==
  [][\A r \in Reqs :
       /\ PanelsDone(r) =>
            /\ RatLeq(RatInt(req[r].thresholdField), req[r].best.score)
                 => status'.msg \in WarningMsgs
            /\ req'[r].best = req[r].best
            /\ calls'[r].route = calls[r].route
       /\ (OsrmAnswerLegacy(r, TwoRoutes) /\ req'[r].pc = "selected") =>
            /\ RatLeq(RatInt(req[r].thresholdField), req'[r].best.score)
                 => status'.msg \in WarningMsgs
            /\ calls'[r].route = calls[r].route]_vars

(***************************************************************************)
(* Properties of the failure handling of the scorer.                       *)
(***************************************************************************)
\* C12: a sub-score that cannot be computed for a candidate (weather
\* failure, missing hazard layer, geometry with no coordinates) is 0 and the
\* candidate is still scored; the failure never aborts the scoring of the
\* request: a response with alternatives puts every alternative into
\* scoring, with learned and hazard sub-scores 0 for a geometry without
\* coordinates and hazard sub-score 0 without the hazard layer, and no
\* weather answer makes the request fail at scoring.
C12_DegradeNeverAborts ==
  [][\A r \in Reqs :
       /\ \A ans \in OsrmAnswers :
            (OsrmAnswerApp(r, ans) /\ OsrmOutcome(ans) = "routes") =>
              /\ req'[r].pc = "scoring"
              /\ Len(req'[r].evals) = Len(ans.routes)
              /\ \A i \in 1..Len(ans.routes) :
                   /\ EmptyGeo(ans.routes[i].geometry) =>
                        /\ req'[r].evals[i].learned = RatInt(0)
                        /\ req'[r].evals[i].noah = RatInt(0)
                   /\ ~noahHazard => req'[r].evals[i].noah = RatInt(0)
       /\ \A i \in 1..2, ans \in AccuAnswers :
            WeatherAnswer(r, i, ans) => req'[r].fail # "scoring"]_vars

\* C13: when the weather service is missing, answers with a non-success
\* status, fails at transport level or answers without current conditions,
\* the weather sub-scores of the candidate are rainScore = 0 and
\* alertScore = 0 and the candidate is still scored: a first failure makes
\* the second address be tried, and the final answer leaves the candidate
\* scored with 1.0*learned + 3.0*(hazard*3.0) and never fails the scoring.
C13_WeatherFailureZero ==
  [][\A r \in Reqs, i \in 1..2, ans \in AccuAnswers :
       (WeatherAnswer(r, i, ans) /\ Unavailable(ans)) =>
         \/ /\ ~ans.has
            /\ req[r].evals[i].st = "try1"
            /\ req'[r].pc = "scoring"
            /\ req'[r].evals[i].st = "try2"
         \/ /\ req'[r].fail # "scoring"
            /\ req'[r].pc \in {"scoring", "panels"} =>
                 \E j \in 1..Len(req'[r].evals) :
                   LET e == req'[r].evals[j]
                   IN  /\ e.idx = i - 1
                       /\ e.st = "done"
                       /\ e.weather.rainScore = 0
                       /\ e.weather.alertScore = 0
                       /\ e.score.n * (e.learned.d * e.noah.d)
                            = e.score.d * (e.learned.n * e.noah.d
                                             + 9 * e.noah.n * e.learned.d)]_vars

\* the candidates of a request are all scored, one of them without weather
\* and with a score above 0
C13_Witness ==
  \E r \in Reqs :
    /\ build = "app"
    /\ req[r].pc = "panels"
    /\ \E i \in 1..Len(req[r].evals) :
         /\ req[r].evals[i].weather = NoWeather
         /\ req[r].evals[i].score.n > 0

(***************************************************************************)
(* Two submissions of the form of app.js that may overlap: every call of   *)
(* handleRouting is an activation of its own (wireUI awaits nothing and    *)
(* disables nothing), and all activations share the map, drawnRouteIds and *)
(* the status line.                                                        *)
(***************************************************************************)
InitTwo == Init /\ build = "app"

OneRoute == OsrmRoutes(<<RouteA>>)

NextTwo ==
  \/ TilesTested("created")
  \/ NoahDone(FALSE)
  \/ \E r \in Reqs : Submit(r, T_Literal, T_Literal, 0)
  \/ \E r \in Reqs, ans \in {OneRoute, TwoRoutes} : OsrmAnswerApp(r, ans)
  \/ \E r \in Reqs, i \in 1..2 : WeatherAnswer(r, i, AccuNoCurrent)
  \/ \E r \in Reqs : PanelsDone(r)

SpecTwo == InitTwo /\ [][NextTwo]_vars

\* C14: a submission made while an earlier one is in flight is accepted and
\* does not cancel it, both complete, and when a request renders, the route
\* layers of the map are entirely those of that request: nothing drawn by
\* the other request is left over.
C14_LastRenderOwnsMap ==
  [][\A r \in Reqs, i \in 1..2 :
       (WeatherAnswer(r, i, AccuNoCurrent) /\ req'[r].pc = "panels") =>
         layers' = Range(DrawnIds(Len(req[r].evals)))]_vars

\* C15: within one request of app.js, sorting and selection happen only
\* after the score of every candidate of the response has completed: while
\* an evaluation is pending the request has no best route and has drawn
\* nothing, no route layer is added to the map, and the step that selects
\* and draws is one after which every evaluation is complete.
C15_SelectAfterAllScored ==
  /\ [](\A r \in Reqs :
          /\ (build = "app" /\ req[r].pc = "scoring") =>
               /\ ~req[r].best.has
               /\ calls[r].draw = 0
          /\ (build = "app" /\ req[r].pc = "panels") =>
               /\ req[r].best.has
               /\ Len(req[r].evals) = Len(req[r].routes)
               /\ \A j \in 1..Len(req[r].evals) : req[r].evals[j].st = "done")
  /\ [][\A r \in Reqs :
          (/\ build = "app"
           /\ req[r].pc = "scoring"
           /\ \/ req'[r].best.has
              \/ calls'[r].draw > calls[r].draw
              \/ ~(layers' \subseteq layers))
            => /\ Len(req'[r].evals) = Len(req[r].routes)
               /\ \A j \in 1..Len(req'[r].evals) : req'[r].evals[j].st = "done"]_vars

\* one candidate of two is scored, the other is pending, and nothing is
\* selected or drawn
C15_Witness ==
  \E r \in Reqs :
    /\ build = "app"
    /\ req[r].pc = "scoring"
    /\ Len(req[r].evals) = 2
    /\ req[r].evals[1].st = "done"
    /\ req[r].evals[2].st # "done"
    /\ ~req[r].best.has
    /\ layers = {}

\* C16: a map layer or source manipulation that throws while a request of
\* app.js renders its routes does not abort the request: the step that joins
\* the evaluations and draws them, on a created map, still selects the best
\* route and sets the best-route status.
C16_RenderFailureAbsorbed ==
  [][\A r \in Reqs, i \in 1..2, ans \in AccuAnswers :
       (/\ WeatherAnswer(r, i, ans)
        /\ map = "created"
        /\ req'[r].pc # "scoring")
         => /\ req'[r].pc = "panels"
            /\ req'[r].best.has
            /\ status'.msg = "Best route selected (risk a)."]_vars

\* C17: when the NOAH hazard GeoJSON cannot be obtained, map
\* initialisation still completes with the map created, the click handler
\* keeps taking reports, submissions are still taken and processed, and the
\* hazard sub-score of every candidate is 0.
C17_NoahOptional ==
  /\ [][NoahDone(FALSE) =>
          /\ initPc' = "ready"
          /\ map' = "created"
          /\ ~noahHazard'
          /\ status'.msg \in {"Map ready.", "NOAH hazard polygons unavailable."}]_vars
  /\ []((initPc = "ready" /\ ~noahHazard) =>
          /\ TotalReports(flood_grid) < MaxReports => ENABLED MapClick(PA)
          /\ \A r \in Reqs :
               req[r].pc \in {"idle", "selected", "failed"}
                 => ENABLED Submit(r, T_Literal, T_Literal, 0))
  /\ [][\A r \in Reqs, ans \in OsrmAnswers :
          (/\ initPc = "ready"
           /\ ~noahHazard
           /\ OsrmAnswerApp(r, ans)
           /\ OsrmOutcome(ans) = "routes"
           /\ \A i \in 1..Len(ans.routes) : ~EmptyGeo(ans.routes[i].geometry))
            => /\ req'[r].pc = "scoring"
               /\ \A i \in 1..Len(req'[r].evals) :
                    req'[r].evals[i].noah = RatInt(0)]_vars

\* without hazard polygons the map is ready, a report has been recorded by
\* a click and a request has selected a route through the reported cell
C17_Witness ==
  \E r \in Reqs :
    /\ initPc = "ready"
    /\ ~noahHazard
    /\ build = "app"
    /\ req[r].pc = "selected"
    /\ req[r].best.score.n > 0
    /\ status.msg = "Flood report recorded (count=a)"

\* the route layers of a response with n alternatives: one per alternative
\* and the highlighted best route
OwnLayers(n) == {LineId(AltSuffix(i)) : i \in 0..(n - 1)} \cup {LineId(BestSuffix)}

\* C18: for submissions that do not overlap, when a request has selected
\* its route the route layers on the map are exactly those of that request's
\* candidates, its alternatives and its best route, also when the response
\* has fewer alternatives than the one before: in app.js at the step that
\* draws, in part_001 at the step that scores, draws and selects.
C18_OnlyOwnLayers ==
  [][\A r \in Sequential :
       /\ \A i \in 1..2, ans \in AccuAnswers :
            (WeatherAnswer(r, i, ans) /\ req'[r].pc = "panels")
              => layers' = OwnLayers(Len(req[r].routes))
       /\ \A ans \in OsrmAnswers :
            (OsrmAnswerLegacy(r, ans) /\ req'[r].pc = "selected")
              => layers' = OwnLayers(Len(ans.routes))]_vars

(***************************************************************************)
(* Submissions whose external calls all answer.  Every await of            *)
(* handleRouting is on a fetch (geocoding, routing, weather; the panels    *)
(* await the weather proxy too) and no timeout is set: the continuation    *)
(* runs when the call returns or fails.  That every call does so is the    *)
(* fairness of the answer steps.                                           *)
(***************************************************************************)
NextLive ==
  \/ TilesTested("created")
  \/ \E loaded \in BOOLEAN : NoahDone(loaded)
  \/ \E r \in Sequential, ot \in Texts, dt \in Texts : Submit(r, ot, dt, 0)
  \/ \E r \in Sequential, ans \in GeoAnswers : GeocodeAnswer(r, ans)
  \/ \E r \in Sequential, ans \in OsrmAnswers : OsrmAnswerApp(r, ans)
  \/ \E r \in Sequential, i \in 1..2, ans \in AccuAnswers : WeatherAnswer(r, i, ans)
  \/ \E r \in Sequential : PanelsDone(r)
  \/ \E r \in Sequential, ans \in OsrmAnswers : OsrmAnswerLegacy(r, ans)

ExternalCallsAnswer ==
  /\ WF_vars(\E r \in Sequential, ans \in GeoAnswers : GeocodeAnswer(r, ans))
  /\ WF_vars(\E r \in Sequential, ans \in OsrmAnswers : OsrmAnswerApp(r, ans))
  /\ WF_vars(\E r \in Sequential, i \in 1..2, ans \in AccuAnswers : WeatherAnswer(r, i, ans))
  /\ WF_vars(\E r \in Sequential : PanelsDone(r))
  /\ WF_vars(\E r \in Sequential, ans \in OsrmAnswers : OsrmAnswerLegacy(r, ans))

SpecLive == Init /\ [][NextLive]_vars /\ ExternalCallsAnswer

\* the stages of a request: not started or ended (0), resolving locations
\* (1), requesting routes (2), scoring candidates and rendering (3)
Stage(pc) ==
  CASE pc \in {"idle", "selected", "failed"} -> 0
    [] pc \in {"geoO", "geoD"} -> 1
    [] pc = "osrm" -> 2
    [] OTHER -> 3

\* C19: when every external call returns or fails, every submission goes
\* through resolving, requesting and scoring in that order, never back, and
\* eventually ends as exactly one of Selected (with a best route, no
\* failure) and Failed (with a failure, no best route); a submission made
\* after that starts again from a fresh request.
C19_EverySubmissionEnds ==
  /\ \A r \in Sequential :
       (req[r].pc \notin {"idle", "selected", "failed"})
         ~> (req[r].pc \in {"selected", "failed"})
  /\ [][\A r \in Sequential :
          /\ (Stage(req[r].pc) # 0 /\ Stage(req'[r].pc) # 0)
               => Stage(req[r].pc) <= Stage(req'[r].pc)
          /\ (Stage(req[r].pc) # 0 /\ Stage(req'[r].pc) = 0)
               => req'[r].pc \in {"selected", "failed"}
          /\ (Stage(req[r].pc) = 0 /\ req'[r] # req[r])
               => /\ req'[r].pc \in {"geoO", "geoD", "osrm", "failed"}
                  /\ req'[r].evals = <<>>
                  /\ req'[r].routes = <<>>
                  /\ ~req'[r].best.has
                  /\ calls'[r].weather = 0 /\ calls'[r].draw = 0]_vars
  /\ [](\A r \in Sequential :
          /\ req[r].pc = "selected" => (req[r].best.has /\ req[r].fail = "")
          /\ req[r].pc = "failed" => (~req[r].best.has /\ req[r].fail # ""))

\* a submission with an address has been geocoded, routed, scored with
\* weather and has selected its route
C19_Witness ==
  \E r \in Sequential :
    /\ req[r].pc = "selected"
    /\ calls[r].geocode > 0
    /\ calls[r].route > 0
    /\ calls[r].weather > 0

(***************************************************************************)
(* The learned sub-score.                                                  *)
(***************************************************************************)
\* the reports of the grid that the samples S fall on, cell by cell: the
\* count of the cell times the number of samples whose key, built as
\* increment builds it, is the key of the cell
RECURSIVE CellSum(_, _, _)
CellSum(g, cells, S) ==
  IF cells = {} THEN 0
  ELSE LET k == CHOOSE c \in cells : TRUE
       IN  g[k] * Cardinality({j \in 1..Len(S) : FL_key(S[j].lat, S[j].lng) = k})
             + CellSum(g, cells \ {k}, S)

\* q is the arithmetic mean over the samples of geo of the counts of their
\* cells, and 0 when there is no sample or the grid is empty
IsLearnedMean(q, geo, item) ==
  LET S == sampleCoordsFromGeojson(geo, LearnedSamples)
      g == FL_all(item)
  IN  IF Len(S) = 0 \/ DOMAIN g = {}
      THEN q = RatInt(0)
      ELSE q.d > 0 /\ q.n * Len(S) = q.d * CellSum(g, DOMAIN g, S)

\* C20: the learned sub-score of a geometry is the arithmetic mean, over
\* the output of the sampler with N = 30, of the grid count of each
\* sample's cell, the cell key rounded to 3 decimals as increment rounds
\* it, and 0 when there are no samples or the grid is empty: for every
\* candidate app.js scores, and for the route part_001 selects.
C20_LearnedIsMean ==
  [][\A r \in Reqs, ans \in OsrmAnswers :
       /\ (OsrmAnswerApp(r, ans) /\ req'[r].pc = "scoring") =>
            \A i \in 1..Len(req'[r].evals) :
              IsLearnedMean(req'[r].evals[i].learned, ans.routes[i].geometry, flood_grid)
       /\ (OsrmAnswerLegacy(r, ans) /\ req'[r].pc = "selected") =>
            IsLearnedMean(req'[r].best.score, req'[r].best.geo, flood_grid)]_vars

\* a candidate whose samples fall on a reported cell and on a cell without
\* reports: its learned sub-score is a mean that is not a whole number
C20_Witness ==
  \E r \in Reqs :
    /\ build = "app"
    /\ req[r].pc = "scoring"
    /\ \E i \in 1..Len(req[r].evals) :
         /\ req[r].evals[i].learned.d = 2
         /\ req[r].evals[i].learned.n >= 1

(***************************************************************************)
(* The weather answers as the proxy may send them: the body is whatever    *)
(* JSON the service returns, and computeWeatherScoreForPoint reads         *)
(* PrecipitationSummary.PastHour.Metric.Value through Number() without a   *)
(* test of its sign.                                                       *)
(***************************************************************************)
AccuDrizzle == [has |-> TRUE, current |-> TRUE, pastHour |-> 3, text |-> "Cloudy"]

\* a body whose past-hour value is below zero
AccuNegative == [has |-> TRUE, current |-> TRUE, pastHour |-> -4, text |-> "Cloudy"]

WeatherBodies == {AccuNull, AccuNoCurrent, AccuDrizzle, AccuStorm, AccuNegative}

NextWeather ==
  \/ TilesTested("created")
  \/ \E loaded \in BOOLEAN : NoahDone(loaded)
  \/ MapClick(PC)
  \/ \E r \in Sequential : Submit(r, T_Literal, T_Literal, 0)
  \/ \E r \in Sequential, ans \in {OneRoute, TwoRoutes} : OsrmAnswerApp(r, ans)
  \/ \E r \in Sequential, i \in 1..2, ans \in WeatherBodies : WeatherAnswer(r, i, ans)
  \/ \E r \in Sequential : PanelsDone(r)

SpecWeather == InitTwo /\ [][NextWeather]_vars

C22_NoRetry ==
  \A r \in Reqs :
    /\ calls[r].geocode <= 2
    /\ calls[r].route <= 1
    /\ \A i \in 1..Len(req[r].evals) : req[r].evals[i].st # "try2"

\* C23: map-click reports are never lost under interleaving: every click,
\* whatever requests and weather fetches are in flight, raises the count of
\* its cell by exactly 1, reports that count, and leaves the other cells and
\* the requests in flight as they are, and no step of a request in flight
\* writes the grid; so k clicks on one cell with no clear in between raise
\* its count by exactly k.
C23_ClicksNeverLost ==
  [][/\ \A p \in Points :
          MapClick(p) =>
            LET k == FL_key(p.lat, p.lng)
                g == FL_all(flood_grid)
                h == FL_all(flood_grid')
            IN  /\ Lookup(h, k) = Lookup(g, k) + 1
                /\ status'.a = Lookup(g, k) + 1
                /\ \A k2 \in (DOMAIN g \cup DOMAIN h) \ {k} : Lookup(h, k2) = Lookup(g, k2)
                /\ req' = req
     /\ (\E r \in Reqs : req'[r] # req[r]) => flood_grid' = flood_grid]_vars

\* the second click on the cell of PA has just been recorded while a request
\* has one candidate scored and waits for the weather of the other
C23_Witness ==
  /\ status.msg \in {"Flood report recorded (count=a)", "Flood report added (count = a)"}
  /\ status.a = 2
  /\ ScoreAt(flood_grid, PA) = 2
  /\ \E r \in Reqs :
       /\ req[r].pc = "scoring"
       /\ Len(req[r].evals) = 2
       /\ req[r].evals[1].st = "done"
       /\ req[r].evals[2].st # "done"

\* C24: within one request the learned sub-scores of all candidates are
\* computed against one and the same grid, the grid of the step in which
\* the routing answer arrives; a click or a clear while the request awaits
\* its weather answers changes neither the request nor the learned
\* sub-scores that enter its scores and its selection.
C24_OneGridPerRequest ==
  [][\A r \in Reqs :
       /\ \A ans \in OsrmAnswers :
            (OsrmAnswerApp(r, ans) /\ req'[r].pc = "scoring") =>
              \A i \in 1..Len(req'[r].evals) :
                req'[r].evals[i].learned
                  = computeLearnedScore(ans.routes[i].geometry, flood_grid)
       /\ \A i \in 1..2, ans \in AccuAnswers :
            (WeatherAnswer(r, i, ans) /\ req'[r].pc \in {"scoring", "panels"}) =>
              \A j \in 1..Len(req[r].evals) :
                \E j2 \in 1..Len(req'[r].evals) :
                  /\ req'[r].evals[j2].idx = req[r].evals[j].idx
                  /\ req'[r].evals[j2].learned = req[r].evals[j].learned
       /\ \A ans \in OsrmAnswers :
            (OsrmAnswerLegacy(r, ans) /\ req'[r].pc = "selected") =>
              \A i \in 1..Len(ans.routes) :
                RatLeq(req'[r].best.score, scoreRoute(ans.routes[i].geometry, flood_grid).score)
       /\ (ClearMemory \/ \E p \in Points : MapClick(p)) => req' = req]_vars

\* a request has scored, sorted and selected with learned sub-scores that
\* differ from what the grid would give now: the grid has changed while
\* the request awaited its weather answers
C24_Witness ==
  \E r \in Reqs :
    /\ build = "app"
    /\ req[r].pc = "panels"
    /\ \E i \in 1..Len(req[r].evals) :
         req[r].evals[i].learned
           # computeLearnedScore(req[r].evals[i].geo, flood_grid)

\* C25: after clearRoutes has returned, called when the routing answer of
\* a new request has arrived or by the clear-memory button, the map holds
\* none of the route layers and none of the route sources drawGeojsonRoute
\* added before, and drawnRouteIds is empty.
C25_ClearRoutesRemovesAll ==
  [][(/\ build = "app"
      /\ \/ ClearMemory
         \/ \E r \in Reqs, ans \in OsrmAnswers :
              OsrmAnswerApp(r, ans) /\ OsrmOutcome(ans) = "routes")
       => /\ layers' = {}
          /\ sources' = {}
          /\ drawnRouteIds' = <<>>]_vars

\* C26: a submission that ends in Failed (a location that cannot be
\* resolved, a routing error, no alternatives, an error during scoring)
\* leaves the routes rendered before on the map and drawnRouteIds exactly
\* as they were: the step in which the request fails changes the status
\* text only.
C26_FailedLeavesRoutes ==
  [][\A r \in Reqs :
       (/\ build = "app"
        /\ layers # {}
        /\ req[r].pc # "failed"
        /\ req'[r].pc = "failed")
         => /\ layers' = layers
            /\ sources' = sources
            /\ drawnRouteIds' = drawnRouteIds]_vars

====
